---- MODULE Spec2Model ----
(***************************************************************************)
(* The pfhub command line tool (pfhub/scripts/cli.py): the five commands   *)
(* download, download-meta, convert, validate-old and validate, the URL    *)
(* classification by regular expressions, the two schema validators and    *)
(* the formatting of the list of written files.                            *)
(*                                                                         *)
(* Text is a sequence of string fragments whose concatenation is the       *)
(* text: a URL is a sequence of one-character strings, a message is the    *)
(* fragments an f-string joins.  An optional value (Python's None) is a    *)
(* sequence of length 0 or 1.  The external collaborators (the Zenodo      *)
(* download, the file download, pykwalify, the linkml validator) answer    *)
(* nondeterministically; every invocation of a command is a new process    *)
(* and only the file system (the temporary directories) outlives it.       *)
(***************************************************************************)
EXTENDS Naturals, Sequences, FiniteSets

VARIABLES pc, cmd, arg, oracle, out, errors, exitCode, exc, calls, dlArgs,
          result, tmpdirs, created

vars == <<pc, cmd, arg, oracle, out, errors, exitCode, exc, calls, dlArgs,
          result, tmpdirs, created>>

\* ---------------------------------------------------------------- bounds
\* longest run of characters put where a record identifier goes
MaxIdLen == 2
\* longest list of file paths a collaborator returns
MaxPaths == 2
\* temporary directories left on disk before download-meta is no longer run
MaxTmpDirs == 2
\* largest integer status the linkml validator exits with
MaxExitCode == 2

\* ------------------------------------------------------------ optionals
None == <<>>
Some(v) == <<v>>

\* --------------------------------------------------- regular expressions
\* the capturing group (\d{1,}) as one token of a pattern
DigitsGroup == "(\\d{1,})"

IsDigit(c) == c \in {"0", "1", "2", "3", "4", "5", "6", "7", "8", "9"}

\* the literal parts of URLs, character by character
DoiPrefix ==
    <<"h", "t", "t", "p", "s", ":", "/", "/", "d", "o", "i", ".", "o", "r", "g", "/",
       "1", "0", ".", "5", "2", "8", "1", "/", "z", "e", "n", "o", "d", "o", ".">>

ApiPrefix ==
    <<"h", "t", "t", "p", "s", ":", "/", "/", "z", "e", "n", "o", "d", "o", ".", "o",
       "r", "g", "/", "a", "p", "i", "/", "r", "e", "c", "o", "r", "d", "s", "/">>

RecordPrefix ==
    <<"h", "t", "t", "p", "s", ":", "/", "/", "z", "e", "n", "o", "d", "o", ".", "o",
       "r", "g", "/", "r", "e", "c", "o", "r", "d", "/">>

SandboxRecordPrefix ==
    <<"h", "t", "t", "p", "s", ":", "/", "/", "s", "a", "n", "d", "b", "o", "x", ".",
       "z", "e", "n", "o", "d", "o", ".", "o", "r", "g", "/", "r", "e", "c", "o", "r",
       "d", "/">>

SandboxApiPrefix ==
    <<"h", "t", "t", "p", "s", ":", "/", "/", "s", "a", "n", "d", "b", "o", "x", ".",
       "z", "e", "n", "o", "d", "o", ".", "o", "r", "g", "/", "a", "p", "i", "/", "r",
       "e", "c", "o", "r", "d", "s", "/">>

DoiSlashPrefix ==
    <<"h", "t", "t", "p", "s", ":", "/", "/", "d", "o", "i", ".", "o", "r", "g", "/",
       "1", "0", "/", "5", "2", "8", "1", "/", "z", "e", "n", "o", "d", "o", "/">>

BlahPrefix ==
    <<"h", "t", "t", "p", "s", ":", "/", "/", "b", "l", "a", "h", ".", "c", "o", "m">>

HttpRecordPrefix ==
    <<"h", "t", "t", "p", ":", "/", "/", "z", "e", "n", "o", "d", "o", ".", "o", "r",
       "g", "/", "r", "e", "c", "o", "r", "d", "/">>

EmbeddedRecordPrefix ==
    <<"h", "t", "t", "p", "s", ":", "/", "/", "a", ".", "i", "o", "/", "h", "t", "t",
       "p", "s", ":", "/", "/", "z", "e", "n", "o", "d", "o", ".", "o", "r", "g", "/",
       "r", "e", "c", "o", "r", "d", "/">>

RecordsPrefix ==
    <<"h", "t", "t", "p", "s", ":", "/", "/", "z", "e", "n", "o", "d", "o", ".", "o",
       "r", "g", "/", "r", "e", "c", "o", "r", "d", "s", "/">>

SandboxDashPrefix ==
    <<"h", "t", "t", "p", "s", ":", "/", "/", "s", "a", "n", "d", "b", "o", "x", "-",
       "z", "e", "n", "o", "d", "o", ".", "o", "r", "g", "/", "r", "e", "c", "o", "r",
       "d", "/">>

\* The patterns of zenodo_regexs(), in listed order.  In a pattern "." is
\* the unescaped wildcard of the source and DigitsGroup the group.
zenodo_regexs ==
    << DoiPrefix \o <<DigitsGroup>>,
       ApiPrefix \o <<DigitsGroup>>,
       RecordPrefix \o <<DigitsGroup>> >>

\* The patterns of zenodo_sandbox_regexs(), in listed order.
zenodo_sandbox_regexs ==
    << SandboxRecordPrefix \o <<DigitsGroup>>,
       SandboxApiPrefix \o <<DigitsGroup>> >>

MaxOf(S) == CHOOSE k \in S : \A j \in S : j <= k

\* re.match in place of re.fullmatch: the pattern matches a prefix
RECURSIVE re_match(_, _)
re_match(p, s) ==
    IF p = <<>> THEN Some(<<>>)
    ELSE IF Head(p) = DigitsGroup
    THEN LET ks == {k \in 1..Len(s) :
                      /\ \A i \in 1..k : IsDigit(s[i])
                      /\ re_match(Tail(p), SubSeq(s, k + 1, Len(s))) # None}
         IN  IF ks = {} THEN None
             ELSE LET k == MaxOf(ks)
                      rest == re_match(Tail(p), SubSeq(s, k + 1, Len(s)))
                  IN  Some(<<SubSeq(s, 1, k)>> \o rest[1])
    ELSE IF s = <<>> THEN None
    ELSE IF Head(p) = "."
    THEN IF Head(s) # "\n" THEN re_match(Tail(p), Tail(s)) ELSE None
    ELSE IF Head(p) = Head(s) THEN re_match(Tail(p), Tail(s)) ELSE None

\* re.fullmatch(pattern, string): None, or Some(groups) with the captured
\* groups in order.  The group is greedy and backtracks; "." matches any
\* character but a newline; every other token matches itself.
RECURSIVE fullmatch(_, _)
fullmatch(p, s) ==
    IF p = <<>>
    THEN IF s = <<>> THEN Some(<<>>) ELSE None
    ELSE IF Head(p) = DigitsGroup
    THEN LET ks == {k \in 1..Len(s) :
                      /\ \A i \in 1..k : IsDigit(s[i])
                      /\ fullmatch(Tail(p), SubSeq(s, k + 1, Len(s))) # None}
         IN  IF ks = {} THEN None
             ELSE LET k == MaxOf(ks)
                      rest == fullmatch(Tail(p), SubSeq(s, k + 1, Len(s)))
                  IN  Some(<<SubSeq(s, 1, k)>> \o rest[1])
    ELSE IF s = <<>> THEN None
    ELSE IF Head(p) = "."
    THEN IF Head(s) # "\n" THEN fullmatch(Tail(p), Tail(s)) ELSE None
    ELSE IF Head(p) = Head(s) THEN fullmatch(Tail(p), Tail(s)) ELSE None

\* compact: the matches that are not None, in order
RECURSIVE compact(_)
compact(ms) ==
    IF ms = <<>> THEN <<>>
    ELSE IF Head(ms) = None THEN compact(Tail(ms))
    ELSE <<Head(ms)>> \o compact(Tail(ms))

\* get_zenodo_record_id without compact: only the first pattern counts
get_zenodo_record_id_nocompact(url, regexs) ==
    LET matches == [i \in 1..Len(regexs) |-> fullmatch(regexs[i], url)]
    IN  IF Len(matches) >= 1 /\ matches[1] # None
        THEN Some(matches[1][1][1]) ELSE None

\* get_zenodo_record_id(url, regexs): the first group of the first pattern
\* that fully matches, or None
get_zenodo_record_id(url, regexs) ==
    LET matches == [i \in 1..Len(regexs) |-> fullmatch(regexs[i], url)]
        ids     == [i \in 1..Len(compact(matches)) |-> compact(matches)[i][1][1]]
    IN  IF Len(ids) >= 1 THEN Some(ids[1]) ELSE None

\* ------------------------------------------------------------ the inputs
Digits == {"0", "7"}

RECURSIVE Strings(_, _)
Strings(S, n) ==
    IF n = 0 THEN {<<>>}
    ELSE Strings(S, n - 1) \cup
         {Append(s, c) : s \in {t \in Strings(S, n - 1) : Len(t) = n - 1}, c \in S}

IdStrings == Strings(Digits, MaxIdLen)

UrlPrefixes ==
    {DoiPrefix, ApiPrefix, RecordPrefix, SandboxRecordPrefix, SandboxApiPrefix,
     DoiSlashPrefix, BlahPrefix, HttpRecordPrefix, EmbeddedRecordPrefix,
     RecordsPrefix, SandboxDashPrefix}

UrlSuffixes == {<<>>, <<"/">>, <<"/", "f", "i", "l", "e", "s">>}

\* the URLs given to download
URLs == {p \o id \o s : p \in UrlPrefixes, id \in IdStrings, s \in UrlSuffixes}

\* the URLs given to download-meta
MetaURLs == {p \o id : p \in {BlahPrefix, RecordPrefix}, id \in IdStrings}

\* the file paths given to convert, validate-old and validate
FilePaths == {<<"meta.yaml">>, <<"cli.py">>}

\* the lists of local file paths a collaborator returns
PathNames == {"meta.yaml", "stats.tsv"}
PathLists == Strings(PathNames, MaxPaths)

\* what download_file does: fetch the file, or raise
ProbeOutcomes == {"file", "ConnectionError", "IsADirectoryError"}
\* what either phase of pykwalify does: succeed, or raise an error
PhaseOutcomes == {"ok", "CoreError", "SchemaError", "OtherError"}
\* what the linkml validator does: exit with a status (SystemExit with an
\* integer code or with code None), raise KeyError, or return
ExitCodes == {Some(c) : c \in 0..MaxExitCode} \cup {None}
Keys == {"name"}
EngineOutcomes ==
    {[engine |-> "exit", code |-> c, key |-> ""] : c \in ExitCodes} \cup
    {[engine |-> "KeyError", code |-> None, key |-> k] : k \in Keys} \cup
    {[engine |-> "return", code |-> None, key |-> ""]}

NoAnswer ==
    [probe |-> "-", core |-> "-", val |-> "-", engine |-> "-", code |-> None,
     key |-> "", paths |-> <<>>]

InSeq(x, s) == \E i \in 1..Len(s) : s[i] = x

\* the answers of the collaborators that were called, the others blanked
Answered(o, cs) ==
    LET called(fn) == InSeq(fn, cs)
        engine == called("validator.cli.callback")
    IN  [probe  |-> IF called("download_file") THEN o.probe ELSE "-",
         core   |-> IF called("Core") THEN o.core ELSE "-",
         val    |-> IF called("Core.validate") THEN o.val ELSE "-",
         engine |-> IF engine THEN o.engine ELSE "-",
         code   |-> IF engine THEN o.code ELSE None,
         key    |-> IF engine THEN o.key ELSE "",
         paths  |-> IF \/ called("download_zenodo_")
                       \/ called("download_meta_")
                       \/ called("meta_to_zenodo_no_zip")
                    THEN o.paths ELSE <<>>]

\* ------------------------------------------------------------- output
\* click.format_filename leaves a decodable path as it is
format_filename(local_filepath) == local_filepath

\* echo inside output: one secho of " <path>" + comma, with or without newline
echo(local_filepath, newline, comma) ==
    <<" ", format_filename(local_filepath)>> \o comma \o
    (IF newline THEN <<"\n">> ELSE <<>>)

\* the loop of output over local_filepaths[:-1]
RECURSIVE echo_each(_)
echo_each(ps) ==
    IF ps = <<>> THEN <<>>
    ELSE echo(Head(ps), FALSE, <<",">>) \o echo_each(Tail(ps))

\* output whose loop runs over every path: the last one is printed twice
output_whole_loop(local_filepaths) ==
    LET n == Len(local_filepaths)
    IN  IF n = 0
        THEN [out |-> <<"Writing:">>, exc |-> "IndexError"]
        ELSE [out |-> <<"Writing:">>
                      \o echo_each(local_filepaths)
                      \o echo(local_filepaths[n], TRUE, <<>>),
              exc |-> "none"]

\* output(local_filepaths): what it prints, and the exception it ends with
\* (local_filepaths[-1] of an empty list raises IndexError)
output(local_filepaths) ==
    LET n == Len(local_filepaths)
    IN  IF n = 0
        THEN [out |-> <<"Writing:">>, exc |-> "IndexError"]
        ELSE [out |-> <<"Writing:">>
                      \o echo_each(SubSeq(local_filepaths, 1, n - 1))
                      \o echo(local_filepaths[n], TRUE, <<>>),
              exc |-> "none"]

\* ----------------------------------------------------------- validators
\* validate_old_(path): the construction phase catches CoreError only, the
\* validate phase SchemaError only; any other error propagates
validate_old_(o) ==
    IF o.core = "CoreError"
    THEN [ret |-> "False", exc |-> "none", calls |-> <<"Core">>]
    ELSE IF o.core # "ok"
    THEN [ret |-> "raise", exc |-> o.core, calls |-> <<"Core">>]
    ELSE IF o.val = "SchemaError"
    THEN [ret |-> "False", exc |-> "none", calls |-> <<"Core", "Core.validate">>]
    ELSE IF o.val # "ok"
    THEN [ret |-> "raise", exc |-> o.val, calls |-> <<"Core", "Core.validate">>]
    ELSE [ret |-> "True", exc |-> "none", calls |-> <<"Core", "Core.validate">>]

\* tempfile.mkdtemp: a directory that did not exist
mkdtemp(fs) == CHOOSE d \in 1..(Cardinality(fs) + 1) : d \notin fs

\* validate_old_url(url): mkdtemp, download_file, validate_old_, rmtree;
\* an exception of download_file or validate_old_ leaves before rmtree
validate_old_url(o, fs) ==
    LET tmpdir == mkdtemp(fs)
        r      == validate_old_(o)
    IN  IF o.probe # "file"
        THEN [ret |-> "raise", exc |-> o.probe,
              calls |-> <<"mkdtemp", "download_file">>,
              tmpdirs |-> fs \cup {tmpdir}, created |-> {tmpdir}]
        ELSE IF r.ret = "raise"
        THEN [ret |-> "raise", exc |-> r.exc,
              calls |-> <<"mkdtemp", "download_file">> \o r.calls,
              tmpdirs |-> fs \cup {tmpdir}, created |-> {tmpdir}]
        ELSE [ret |-> r.ret, exc |-> "none",
              calls |-> <<"mkdtemp", "download_file">> \o r.calls \o <<"rmtree">>,
              tmpdirs |-> (fs \cup {tmpdir}) \ {tmpdir}, created |-> {tmpdir}]

\* str(KeyError(key)) is the repr of the key
KeyErrorText(key) == <<"'", key, "'">>

\* validate_ with the comparison of the status inverted
validate_inverted(o) ==
    IF o.engine = "exit"
    THEN [ret |-> IF o.code # Some(0) THEN "True" ELSE "False",
          exc |-> "none", out |-> <<>>]
    ELSE IF o.engine = "KeyError"
    THEN [ret |-> "False", exc |-> "none",
          out |-> <<"KeyError: ">> \o KeyErrorText(o.key) \o <<"\n">>]
    ELSE [ret |-> "raise", exc |-> "RuntimeError", out |-> <<>>]

\* validate_ that takes a normal return of the engine for an invalid file
validate_silent(o) ==
    IF o.engine = "exit"
    THEN [ret |-> IF o.code = Some(0) THEN "True" ELSE "False",
          exc |-> "none", out |-> <<>>]
    ELSE IF o.engine = "KeyError"
    THEN [ret |-> "False", exc |-> "none",
          out |-> <<"KeyError: ">> \o KeyErrorText(o.key) \o <<"\n">>]
    ELSE [ret |-> "False", exc |-> "none", out |-> <<>>]

\* validate_(path): SystemExit gives error.code == 0, KeyError prints a
\* line and gives False, a normal return of the engine raises RuntimeError
validate_(o) ==
    IF o.engine = "exit"
    THEN [ret |-> IF o.code = Some(0) THEN "True" ELSE "False",
          exc |-> "none", out |-> <<>>]
    ELSE IF o.engine = "KeyError"
    THEN [ret |-> "False", exc |-> "none",
          out |-> <<"KeyError: ">> \o KeyErrorText(o.key) \o <<"\n">>]
    ELSE [ret |-> "raise", exc |-> "RuntimeError", out |-> <<>>]

\* ------------------------------------------------------------- commands
\* The end of an invocation: sys.exit(1) after a red message gives exit
\* code 1, a return gives 0, an exception that leaves the command ends the
\* process with a traceback and exit code 1.
Frame(o, e, code, x, cs, dl, res, fs, cr) ==
    [out |-> o, errors |-> e, exitCode |-> code, exc |-> x, calls |-> cs,
     dlArgs |-> dl, result |-> res, tmpdirs |-> fs, created |-> cr]

\* download(url, dest)
download(url, o, fs) ==
    LET first     == get_zenodo_record_id(url, zenodo_regexs)
        none1     == first = None
        record_id == IF none1
                     THEN get_zenodo_record_id(url, zenodo_sandbox_regexs)
                     ELSE first
        sandbox   == none1
        consulted == IF none1 THEN <<"zenodo_regexs", "zenodo_sandbox_regexs">>
                     ELSE <<"zenodo_regexs">>
        w         == output(o.paths)
    IN  IF record_id # None
        THEN Frame(w.out, 0, IF w.exc = "none" THEN 0 ELSE 1, w.exc,
                   consulted \o <<"download_zenodo_", "output">>,
                   <<[record_id |-> record_id[1], sandbox |-> sandbox]>>,
                   "none", fs, {})
        ELSE Frame(url \o <<" does not match any expected regex for Zenodo", "\n">>,
                   1, 1, "none", consulted, <<>>, "none", fs, {})

\* str(err) of the ConnectionError that download_file raised
ErrText == <<"ConnectionError">>

\* download_meta that does not look at is_meta
download_meta_unchecked(url, o, fs) ==
    LET v == validate_old_url(o, fs)
        w == output(o.paths)
    IN  IF v.exc = "ConnectionError"
        THEN Frame(ErrText \o <<"\n">> \o url \o <<" is invalid", "\n">>,
                   2, 1, "none", v.calls, <<>>, v.ret, v.tmpdirs, v.created)
        ELSE IF v.exc = "IsADirectoryError"
        THEN Frame(url \o <<" is not a link to a file", "\n">>,
                   1, 1, "none", v.calls, <<>>, v.ret, v.tmpdirs, v.created)
        ELSE IF v.ret = "raise"
        THEN Frame(<<>>, 0, 1, v.exc, v.calls, <<>>, v.ret, v.tmpdirs, v.created)
        ELSE Frame(w.out, 0, IF w.exc = "none" THEN 0 ELSE 1, w.exc,
                   v.calls \o <<"download_meta_", "output">>, <<>>, v.ret,
                   v.tmpdirs, v.created)

\* download_meta(url, dest)
download_meta(url, o, fs) ==
    LET v == validate_old_url(o, fs)
        w == output(o.paths)
    IN  IF v.exc = "ConnectionError"
        THEN Frame(ErrText \o <<"\n">> \o url \o <<" is invalid", "\n">>,
                   2, 1, "none", v.calls, <<>>, v.ret, v.tmpdirs, v.created)
        ELSE IF v.exc = "IsADirectoryError"
        THEN Frame(url \o <<" is not a link to a file", "\n">>,
                   1, 1, "none", v.calls, <<>>, v.ret, v.tmpdirs, v.created)
        ELSE IF v.ret = "raise"
        THEN Frame(<<>>, 0, 1, v.exc, v.calls, <<>>, v.ret, v.tmpdirs, v.created)
        ELSE IF v.ret = "True"
        THEN Frame(w.out, 0, IF w.exc = "none" THEN 0 ELSE 1, w.exc,
                   v.calls \o <<"download_meta_", "output">>, <<>>, v.ret,
                   v.tmpdirs, v.created)
        ELSE Frame(url \o <<" is not valid", "\n">>,
                   1, 1, "none", v.calls, <<>>, v.ret, v.tmpdirs, v.created)

\* convert that converts before it validates
convert_first(file_path, o, fs) ==
    LET v == validate_old_(o)
        w == output(o.paths)
    IN  IF v.ret = "raise"
        THEN Frame(<<>>, 0, 1, v.exc, <<"meta_to_zenodo_no_zip">> \o v.calls,
                   <<>>, v.ret, fs, {})
        ELSE IF v.ret = "True"
        THEN Frame(w.out, 0, IF w.exc = "none" THEN 0 ELSE 1, w.exc,
                   <<"meta_to_zenodo_no_zip">> \o v.calls \o <<"output">>, <<>>,
                   v.ret, fs, {})
        ELSE Frame(file_path \o <<" is not valid", "\n">>,
                   1, 1, "none", <<"meta_to_zenodo_no_zip">> \o v.calls, <<>>,
                   v.ret, fs, {})

\* convert(file_path, dest)
convert(file_path, o, fs) ==
    LET v == validate_old_(o)
        w == output(o.paths)
    IN  IF v.ret = "raise"
        THEN Frame(<<>>, 0, 1, v.exc, v.calls, <<>>, v.ret, fs, {})
        ELSE IF v.ret = "True"
        THEN Frame(w.out, 0, IF w.exc = "none" THEN 0 ELSE 1, w.exc,
                   v.calls \o <<"meta_to_zenodo_no_zip", "output">>, <<>>,
                   v.ret, fs, {})
        ELSE Frame(file_path \o <<" is not valid", "\n">>,
                   1, 1, "none", v.calls, <<>>, v.ret, fs, {})

\* validate_old without the sys.exit(1) of the invalid branch
validate_old_noexit(file_path, o, fs) ==
    LET v == validate_old_(o)
    IN  IF v.ret = "raise"
        THEN Frame(<<>>, 0, 1, v.exc, v.calls, <<>>, v.ret, fs, {})
        ELSE IF v.ret = "True"
        THEN Frame(file_path \o <<" is valid", "\n">>,
                   0, 0, "none", v.calls, <<>>, v.ret, fs, {})
        ELSE Frame(file_path \o <<" is not valid", "\n">>,
                   1, 0, "none", v.calls, <<>>, v.ret, fs, {})

\* validate_old(file_path)
validate_old(file_path, o, fs) ==
    LET v == validate_old_(o)
    IN  IF v.ret = "raise"
        THEN Frame(<<>>, 0, 1, v.exc, v.calls, <<>>, v.ret, fs, {})
        ELSE IF v.ret = "True"
        THEN Frame(file_path \o <<" is valid", "\n">>,
                   0, 0, "none", v.calls, <<>>, v.ret, fs, {})
        ELSE Frame(file_path \o <<" is not valid", "\n">>,
                   1, 1, "none", v.calls, <<>>, v.ret, fs, {})

\* validate(file_path)
validate(file_path, o, fs) ==
    LET v  == validate_(o)
        cs == <<"validator.cli.callback">>
    IN  IF v.ret = "raise"
        THEN Frame(v.out, 0, 1, v.exc, cs, <<>>, v.ret, fs, {})
        ELSE IF v.ret = "True"
        THEN Frame(v.out \o file_path \o <<" is valid", "\n">>,
                   0, 0, "none", cs, <<>>, v.ret, fs, {})
        ELSE Frame(v.out \o file_path \o <<" is not valid", "\n">>,
                   1, 1, "none", cs, <<>>, v.ret, fs, {})

\* ---------------------------------------------------------------- state
Init ==
    /\ pc = "idle"
    /\ cmd = "none"
    /\ arg = <<>>
    /\ oracle = NoAnswer
    /\ out = <<>>
    /\ errors = 0
    /\ exitCode = 0
    /\ exc = "none"
    /\ calls = <<>>
    /\ dlArgs = <<>>
    /\ result = "none"
    /\ tmpdirs = {}
    /\ created = {}

\* the state after an invocation of command c on a with the answers o
Finish(c, a, o, f) ==
    /\ pc' = "done"
    /\ cmd' = c
    /\ arg' = a
    /\ oracle' = Answered(o, f.calls)
    /\ out' = f.out
    /\ errors' = f.errors
    /\ exitCode' = f.exitCode
    /\ exc' = f.exc
    /\ calls' = f.calls
    /\ dlArgs' = f.dlArgs
    /\ result' = f.result
    /\ tmpdirs' = f.tmpdirs
    /\ created' = f.created

Download ==
    /\ pc = "idle"
    /\ \E url \in URLs, paths \in PathLists :
          LET o == [NoAnswer EXCEPT !.paths = paths]
          IN  Finish("download", url, o, download(url, o, tmpdirs))

DownloadMeta ==
    /\ pc = "idle"
    /\ Cardinality(tmpdirs) < MaxTmpDirs
    /\ \E url \in MetaURLs, probe \in ProbeOutcomes, core \in PhaseOutcomes,
          val \in PhaseOutcomes, paths \in PathLists :
          LET o == [NoAnswer EXCEPT !.probe = probe, !.core = core,
                                    !.val = val, !.paths = paths]
          IN  Finish("download-meta", url, o, download_meta(url, o, tmpdirs))

Convert ==
    /\ pc = "idle"
    /\ \E file_path \in FilePaths, core \in PhaseOutcomes, val \in PhaseOutcomes,
          paths \in PathLists :
          LET o == [NoAnswer EXCEPT !.core = core, !.val = val, !.paths = paths]
          IN  Finish("convert", file_path, o, convert(file_path, o, tmpdirs))

ValidateOld ==
    /\ pc = "idle"
    /\ \E file_path \in FilePaths, core \in PhaseOutcomes, val \in PhaseOutcomes :
          LET o == [NoAnswer EXCEPT !.core = core, !.val = val]
          IN  Finish("validate-old", file_path, o,
                     validate_old(file_path, o, tmpdirs))

Validate ==
    /\ pc = "idle"
    /\ \E file_path \in FilePaths, e \in EngineOutcomes :
          LET o == [NoAnswer EXCEPT !.engine = e.engine, !.code = e.code,
                                    !.key = e.key]
          IN  Finish("validate", file_path, o, validate(file_path, o, tmpdirs))

\* the process ends; the next invocation starts from the file system it left
NextInvocation ==
    /\ pc = "done"
    /\ pc' = "idle"
    /\ cmd' = "none"
    /\ arg' = <<>>
    /\ oracle' = NoAnswer
    /\ out' = <<>>
    /\ errors' = 0
    /\ exitCode' = 0
    /\ exc' = "none"
    /\ calls' = <<>>
    /\ dlArgs' = <<>>
    /\ result' = "none"
    /\ created' = {}
    /\ UNCHANGED tmpdirs

Next ==
    \/ Validate
    \/ ValidateOld
    \/ Convert
    \/ DownloadMeta
    \/ Download
    \/ NextInvocation

Spec == Init /\ [][Next]_vars

\* =============================================================== claims
\* what a full match of a pattern "prefix(\d{1,})" is, stated on the
\* characters: the prefix character by character ("." any character but a
\* newline), then one or more digits up to the end
FullyMatches(url, prefix) ==
    /\ Len(url) > Len(prefix)
    /\ \A i \in 1..Len(prefix) :
          IF prefix[i] = "." THEN url[i] # "\n" ELSE url[i] = prefix[i]
    /\ \A i \in (Len(prefix) + 1)..Len(url) : IsDigit(url[i])

Captured(url, prefix) == SubSeq(url, Len(prefix) + 1, Len(url))

ProductionPrefixes == <<DoiPrefix, ApiPrefix, RecordPrefix>>
SandboxPrefixes == <<SandboxRecordPrefix, SandboxApiPrefix>>

Matching(url, prefixes) ==
    {i \in 1..Len(prefixes) : FullyMatches(url, prefixes[i])}

FirstOf(S) == CHOOSE i \in S : \A j \in S : i <= j

Count(x, s) == Cardinality({i \in 1..Len(s) : s[i] = x})

IsPrefixOf(s, t) == Len(s) <= Len(t) /\ SubSeq(t, 1, Len(s)) = s

\* the calls cs are calls of order, each once, in the order of order
InOrder(cs, order) ==
    /\ \A i \in 1..Len(cs) : InSeq(cs[i], order)
    /\ \A i, j \in 1..Len(cs) :
          i < j => \E k, l \in 1..Len(order) :
                      k < l /\ order[k] = cs[i] /\ order[l] = cs[j]

EndsWith(t, s) ==
    Len(s) <= Len(t) /\ SubSeq(t, Len(t) - Len(s) + 1, Len(t)) = s

Ended(c) == pc = "done" /\ cmd = c

\* C1: a URL given to download that fully matches a production pattern is
\* downloaded once, with the identifier the first matching production
\* pattern captures and sandbox false; one that matches no production
\* pattern but a sandbox pattern once, with the identifier the first
\* matching sandbox pattern captures and sandbox true; the sandbox patterns
\* are consulted only after the production patterns, all of which failed.
C1_Classified ==
    Ended("download") =>
        LET prod == Matching(arg, ProductionPrefixes)
            sand == Matching(arg, SandboxPrefixes)
        IN  /\ prod # {} =>
                 /\ dlArgs = <<[record_id |->
                                  Captured(arg, ProductionPrefixes[FirstOf(prod)]),
                                sandbox |-> FALSE]>>
                 /\ Count("download_zenodo_", calls) = 1
            /\ (prod = {} /\ sand # {}) =>
                 /\ dlArgs = <<[record_id |->
                                  Captured(arg, SandboxPrefixes[FirstOf(sand)]),
                                sandbox |-> TRUE]>>
                 /\ Count("download_zenodo_", calls) = 1
            /\ InSeq("zenodo_sandbox_regexs", calls) =>
                 /\ prod = {}
                 /\ IsPrefixOf(<<"zenodo_regexs", "zenodo_sandbox_regexs">>, calls)

\* a sandbox URL with a two-digit identifier was downloaded
C1_Witness ==
    /\ Ended("download")
    /\ arg = SandboxApiPrefix \o <<"0", "7">>
    /\ dlArgs = <<[record_id |-> <<"0", "7">>, sandbox |-> TRUE]>>
    /\ calls = <<"zenodo_regexs", "zenodo_sandbox_regexs", "download_zenodo_",
                 "output">>

\* C2: a URL that fully matches no production and no sandbox pattern gets
\* None from get_zenodo_record_id for both pattern lists, and download
\* prints "<url> does not match any expected regex for Zenodo", exits with
\* code 1 and never calls the download collaborator.
C2_NoMatch ==
    (/\ Ended("download")
     /\ Matching(arg, ProductionPrefixes) = {}
     /\ Matching(arg, SandboxPrefixes) = {}) =>
        /\ get_zenodo_record_id(arg, zenodo_regexs) = None
        /\ get_zenodo_record_id(arg, zenodo_sandbox_regexs) = None
        /\ out = arg \o <<" does not match any expected regex for Zenodo", "\n">>
        /\ exitCode = 1
        /\ dlArgs = <<>>
        /\ ~InSeq("download_zenodo_", calls)

\* a record URL followed by more path characters was refused
C2_Witness ==
    /\ Ended("download")
    /\ arg = RecordPrefix \o <<"7", "/", "f", "i", "l", "e", "s">>
    /\ exitCode = 1
    /\ dlArgs = <<>>

\* C3: validate_old_ always returns a boolean and lets no exception out:
\* whichever error the construction phase or the validate phase raises, it
\* returns False, and it returns True exactly when neither phase fails.
C3_NoEscape ==
    (pc = "done" /\ InSeq("Core", calls)) =>
        /\ result \in {"True", "False"}
        /\ exc \notin {"CoreError", "SchemaError", "OtherError"}
        /\ result = "True" <=> (oracle.core = "ok" /\ oracle.val = "ok")

\* C4: validate_ turns the exit of the engine into a boolean and the caller
\* goes on: status 0 gives True, any other status False, and a KeyError
\* gives False after the line "KeyError: <key>" was printed.
C4_Intercepted ==
    Ended("validate") =>
        /\ (oracle.engine = "exit" /\ oracle.code = Some(0)) => result = "True"
        /\ (oracle.engine = "exit" /\ oracle.code # Some(0)) => result = "False"
        /\ oracle.engine = "exit" =>
              /\ exc = "none"
              /\ out = arg \o <<IF result = "True" THEN " is valid"
                                ELSE " is not valid", "\n">>
        /\ oracle.engine = "KeyError" =>
              /\ result = "False"
              /\ exc = "none"
              /\ IsPrefixOf(<<"KeyError: ">> \o KeyErrorText(oracle.key) \o <<"\n">>,
                            out)

\* the engine raised KeyError and validate reported the file not valid
C4_Witness ==
    /\ Ended("validate")
    /\ oracle.engine = "KeyError"
    /\ result = "False"
    /\ EndsWith(out, arg \o <<" is not valid", "\n">>)

\* C5: when an invocation of download-meta has ended, no temporary
\* directory that it created exists any more.
C5_TmpRemoved ==
    Ended("download-meta") => created \cap tmpdirs = {}

\* the order of the calls of download-meta
MetaOrder ==
    <<"mkdtemp", "download_file", "Core", "Core.validate", "rmtree",
      "download_meta_", "output">>

\* C6: download-meta checks in a fixed order and reports one outcome: a
\* network failure of the fetch ends in "<url> is invalid" and exit 1, a
\* directory in "<url> is not a link to a file" and exit 1, a file that
\* fails the legacy validation in "<url> is not valid" and exit 1; only
\* when the legacy validation returned true is download_meta_ called and
\* the file list printed with exit 0; download_meta_ is called on none of
\* the three failure paths.
C6_MetaOutcomes ==
    Ended("download-meta") =>
        /\ InOrder(calls, MetaOrder)
        /\ oracle.probe = "ConnectionError" =>
              /\ EndsWith(out, arg \o <<" is invalid", "\n">>)
              /\ errors > 0 /\ exitCode = 1
              /\ ~InSeq("Core", calls) /\ ~InSeq("download_meta_", calls)
        /\ oracle.probe = "IsADirectoryError" =>
              /\ out = arg \o <<" is not a link to a file", "\n">>
              /\ errors = 1 /\ exitCode = 1
              /\ ~InSeq("Core", calls) /\ ~InSeq("download_meta_", calls)
        /\ (oracle.probe = "file" /\ result = "False") =>
              /\ out = arg \o <<" is not valid", "\n">>
              /\ errors = 1 /\ exitCode = 1
              /\ ~InSeq("download_meta_", calls)
        /\ InSeq("download_meta_", calls) =>
              /\ oracle.probe = "file" /\ result = "True"
              /\ Count("download_meta_", calls) = 1
        /\ result = "True" => InSeq("download_meta_", calls)
        /\ exitCode = 0 =>
              /\ result = "True" /\ errors = 0
              /\ out = output(oracle.paths).out
              /\ out[1] = "Writing:" /\ out[Len(out)] = "\n"

\* the fetched file was valid, the metadata was downloaded, the list printed
C6_Witness ==
    /\ Ended("download-meta")
    /\ calls = MetaOrder
    /\ exitCode = 0
    /\ Len(oracle.paths) >= 1

\* C7 as stated: every invocation ends with exit code 1 if it printed an
\* error message and with exit code 0 otherwise, whatever the collaborators
\* do; validate-old and validate end with exit 0 and "<path> is valid"
\* exactly when the validator returned true, with exit 1 and "<path> is not
\* valid" exactly when it returned false.
C7_ExitOneIffError ==
    pc = "done" =>
        /\ errors > 0 => exitCode = 1
        /\ errors = 0 => exitCode = 0
        /\ cmd \in {"validate-old", "validate"} =>
              /\ result = "True" <=>
                    (exitCode = 0 /\ EndsWith(out, arg \o <<" is valid", "\n">>))
              /\ result = "False" <=>
                    (exitCode = 1 /\ EndsWith(out, arg \o <<" is not valid", "\n">>))

\* C7 as amended: an invocation that printed an error message ends with
\* exit code 1; one that printed none ends with exit code 0 unless an
\* exception leaves the command, and then it ends with exit code 1 having
\* printed no error message; validate-old and validate end with exit 0 and
\* "<path> is valid" exactly when the validator returned true, with exit 1
\* and "<path> is not valid" exactly when it returned false.
C7_ExitCodes ==
    pc = "done" =>
        /\ errors > 0 => (exitCode = 1 /\ exc = "none")
        /\ (errors = 0 /\ exc = "none") => exitCode = 0
        /\ exc # "none" => (exitCode = 1 /\ errors = 0)
        /\ cmd \in {"validate-old", "validate"} =>
              /\ result = "True" <=>
                    (exitCode = 0 /\ EndsWith(out, arg \o <<" is valid", "\n">>))
              /\ result = "False" <=>
                    (/\ exitCode = 1 /\ errors = 1
                     /\ EndsWith(out, arg \o <<" is not valid", "\n">>))

\* validate ended with the RuntimeError: exit code 1 and no error message
C7_Witness ==
    /\ Ended("validate")
    /\ exc = "RuntimeError"
    /\ errors = 0
    /\ exitCode = 1

C9_ConvertGuarded ==
    Ended("convert") =>
        /\ calls # <<>> /\ calls[1] = "Core"
        /\ InSeq("meta_to_zenodo_no_zip", calls) =>
              /\ result = "True"
              /\ IsPrefixOf(<<"Core", "Core.validate", "meta_to_zenodo_no_zip">>,
                            calls)
        /\ result = "False" =>
              /\ out = arg \o <<" is not valid", "\n">>
              /\ exitCode = 1
              /\ ~InSeq("meta_to_zenodo_no_zip", calls)

\* convert refused a file whose content violates the legacy schema
C9_Witness ==
    /\ Ended("convert")
    /\ oracle.val = "SchemaError"
    /\ result = "False"
    /\ exitCode = 1

\* C10: validate_ gives a boolean exactly when the engine exits with a
\* status or raises KeyError; when the engine returns normally it gives no
\* boolean, the RuntimeError leaves the validate command and neither
\* "<path> is valid" nor "<path> is not valid" is printed.
C10_Fatal ==
    Ended("validate") =>
        /\ result \in {"True", "False"} <=> oracle.engine \in {"exit", "KeyError"}
        /\ oracle.engine = "return" =>
              /\ result = "raise"
              /\ exc = "RuntimeError"
              /\ exitCode # 0
              /\ \A i \in 1..Len(out) : out[i] \notin {" is valid", " is not valid"}

\* the engine returned normally
C10_Witness ==
    /\ Ended("validate")
    /\ oracle.engine = "return"
    /\ result = "raise"
    /\ out = <<>>

====
